---- MODULE Spec2Model ----
(***************************************************************************)
(* Model of nestjs-swagger-document: the document service                  *)
(* (SwaggerDocumentService), the metadata worker's host side               *)
(* (SwaggerMetadataWorker) and the worker thread's main (workers/worker).  *)
(*                                                                         *)
(* One "run" is one call of initialize(): it loads the cached document,    *)
(* spawns one worker thread, and - on the worker's result message - runs   *)
(* the loader and the setup pipeline on the main thread.  The main thread  *)
(* is a single-threaded event loop: each action below that belongs to the  *)
(* main thread is the code between two suspension points (await / event).  *)
(* Worker threads run in parallel with it and with each other; their       *)
(* actions are cut at the file-system operations on the shared metadata    *)
(* folder.                                                                 *)
(***************************************************************************)
EXTENDS Integers, Sequences, FiniteSets, TLC

\* Number of initialize() calls explored on the one service instance.
MaxInit == 2

Runs == 1..MaxInit

-----------------------------------------------------------------------------
(* Paths: a path is the sequence of its segments below the root.           *)

RECURSIVE Normalize(_, _)
\* path.join's normalisation: ".." removes the segment before it.
Normalize(done, rest) ==
  IF rest = <<>> THEN done
  ELSE IF Head(rest) = ".."
       THEN Normalize(IF done = <<>> THEN <<>> ELSE SubSeq(done, 1, Len(done) - 1),
                      Tail(rest))
       ELSE Normalize(Append(done, Head(rest)), Tail(rest))

\* path.join(a, b): the segments of a followed by those of b, also when b
\* is itself an absolute path.
Join(a, b) == Normalize(<<>>, a \o b)

\* process.cwd() of the host application.
Cwd == <<"app">>

\* __dirname of the compiled service (dist/ of the installed package).
ServiceDirname == <<"app", "node_modules", "nestjs-swagger-document", "dist">>

\* __dirname of the compiled SwaggerMetadataWorker (dist/workers).
WorkerDirname == Join(ServiceDirname, <<"workers">>)

\* setup(): const apiPath = path.join(process.cwd(), 'api-metadata.json')
WritePath == Join(Cwd, <<"api-metadata.json">>)

\* initialize(): the argument handed to loadMetadata
InitializeFileArg == Join(Cwd, <<"api-metadata.json">>)

\* loadMetadata(file): const filePath = path.join(__dirname, file)
LoadPath(file) == Join(ServiceDirname, file)

ReadPath == LoadPath(InitializeFileArg)

MetadataFolder == Join(WorkerDirname, <<"..", "metadata">>)
MetadataJsWorkerPath == Join(WorkerDirname, <<"worker.js">>)
TsConfigPath == Join(Cwd, <<"tsconfig.json">>)
MetadataTsPath == Join(MetadataFolder, <<"metadata.ts">>)
MetadataJsPath == Join(MetadataFolder, <<"metadata.js">>)

Paths == {ReadPath, WritePath, MetadataJsWorkerPath, TsConfigPath,
          MetadataTsPath, MetadataJsPath}

-----------------------------------------------------------------------------
(* File contents and documents.                                            *)

Absent == [kind |-> "absent"]
\* A file whose text is not JSON (also: any script or config file).
Text == [kind |-> "text"]

\* this.document before any assignment / loadMetadata's `return undefined`.
Unset == [kind |-> "unset"]

\* Generated metadata is identified by the generation that produced it: the
\* run whose worker ran the generator, or PriorGen for an earlier process.
PriorGen == <<"prior">>
Gen(r) == <<"run", r>>

\* A document left on disk by an earlier process.
CachedDoc == [kind |-> "doc", ann |-> PriorGen, models |-> PriorGen]

\* SwaggerModule.createDocument: reads the annotations on the live
\* prototypes and the run's models.
CreateDocument(ann, models) == [kind |-> "doc", ann |-> ann, models |-> models]

\* writeFileSync(path, content)
WriteFileSync(f, p, c) == [f EXCEPT ![p] = c]

\* JSON.stringify(document, null, 2)
Stringify(d) == [kind |-> "json", val |-> d]

\* JSON.parse(data): throws on text that is not JSON.
Parseable(c) == c.kind = "json"
Parse(c) == c.val

Exists(f, p) == f[p].kind # "absent"

\* metadata.ts and metadata.js as an earlier process left them in the
\* metadata folder.
StaleTs == [kind |-> "ts", gen |-> PriorGen]
StaleJs == [kind |-> "js", gen |-> PriorGen, by |-> 0]

-----------------------------------------------------------------------------
(* State.                                                                  *)

VARIABLES
  document,     \* SwaggerDocumentService.document (what getDocument() returns)
  fs,           \* the files of Paths: path -> content
  moduleCache,  \* the process's module cache entry for metadata.js
  annotations,  \* the annotations on the live controller prototypes
  nInit,        \* number of initialize() calls made so far
  nWorkers,     \* number of `new Worker(...)` executed so far
  pc,           \* per run: where its main-thread handling stands
  wpc,          \* per run: where its worker thread stands
  hasCallback,  \* per run: whether initialize() was given a callback
  metadata,     \* per run: the metadata its loader returned, while in scope
  thrown,       \* per run: the exception initialize() raised to its caller
  errors,       \* the kinds of logger.error lines written so far
  docBy,        \* which run assigned `document` last (0: initialize / nobody)
  fileBy,       \* which run wrote the persisted file last (0: nobody)
  fnCall,       \* the call of a synchronous function under study: its arguments
  fnResult      \* what that call has returned or left behind so far

\* The state of the service, its worker and their environment.
svcVars == <<document, fs, moduleCache, annotations, nInit, nWorkers, pc, wpc,
             hasCallback, metadata, thrown, errors, docBy, fileBy>>

\* The state of a function call studied on its own.
fnVars == <<fnCall, fnResult>>

vars == <<svcVars, fnVars>>

\* No function call is under study.
NoCall == [fn |-> "none"]

\* The call under study has not returned yet.
Pending == [fn |-> "pending"]

\* No metadata: a closure variable not (or no longer) in scope, prototypes
\* never annotated.
NoMeta == <<>>

\* getDocument(): return this.document
GetDocument == document

Init ==
  /\ document = Unset
  /\ \E cache \in {Absent, Text, Stringify(CachedDoc)},
        script \in {Absent, Text}, tsconfig \in {Absent, Text},
        stale \in BOOLEAN :
       fs = [p \in Paths |->
               IF p = ReadPath THEN cache
               ELSE IF p = MetadataJsWorkerPath THEN script
               ELSE IF p = TsConfigPath THEN tsconfig
               ELSE IF stale /\ p = MetadataTsPath THEN StaleTs
               ELSE IF stale /\ p = MetadataJsPath THEN StaleJs
               ELSE Absent]
  /\ moduleCache = Absent
  /\ annotations = NoMeta
  /\ nInit = 0
  /\ nWorkers = 0
  /\ pc = [r \in Runs |-> "idle"]
  /\ wpc = [r \in Runs |-> "none"]
  /\ hasCallback = [r \in Runs |-> FALSE]
  /\ metadata = [r \in Runs |-> NoMeta]
  /\ thrown = [r \in Runs |-> "none"]
  /\ errors = {}
  /\ docBy = 0
  /\ fileBy = 0
  /\ fnCall = NoCall
  /\ fnResult = NoCall

-----------------------------------------------------------------------------
(* SwaggerDocumentService.initialize and what it calls synchronously.      *)

\* loadMetadata(file): undefined when the file is absent, the parsed text
\* otherwise; JSON.parse throws on text that is not JSON.
LoadMetadata(file) ==
  LET filePath == LoadPath(file) IN
  IF ~Exists(fs, filePath) THEN [threw |-> FALSE, value |-> Unset]
  ELSE IF Parseable(fs[filePath])
       THEN [threw |-> FALSE, value |-> Parse(fs[filePath])]
       ELSE [threw |-> TRUE, value |-> Unset]

\* Mutant of GenerateMetadata: the loader is entered right after the Worker
\* is constructed, without waiting for its result message.
GenerateMetadataInline(r) ==
  IF ~Exists(fs, MetadataJsWorkerPath)
  THEN /\ thrown' = [thrown EXCEPT ![r] = "worker_not_found"]
       /\ pc' = [pc EXCEPT ![r] = "aborted"]
       /\ UNCHANGED <<wpc, nWorkers>>
  ELSE /\ nWorkers' = nWorkers + 1
       /\ wpc' = [wpc EXCEPT ![r] = "start"]
       /\ pc' = [pc EXCEPT ![r] = "importing"]
       /\ UNCHANGED thrown

\* SwaggerMetadataWorker.generateMetadata, up to its return: throws when
\* worker.js is missing, otherwise constructs the Worker and registers the
\* message / error / exit handlers.  Nothing of the pipeline runs here.
GenerateMetadata(r) ==
  IF ~Exists(fs, MetadataJsWorkerPath)
  THEN /\ thrown' = [thrown EXCEPT ![r] = "worker_not_found"]
       /\ pc' = [pc EXCEPT ![r] = "aborted"]
       /\ UNCHANGED <<wpc, nWorkers>>
  ELSE /\ nWorkers' = nWorkers + 1
       /\ wpc' = [wpc EXCEPT ![r] = "start"]
       /\ pc' = [pc EXCEPT ![r] = "waiting"]
       /\ UNCHANGED thrown

\* initialize(baseApp, callback)
Initialize(cb) ==
  /\ nInit < MaxInit
  /\ LET r == nInit + 1
         loaded == LoadMetadata(InitializeFileArg)
     IN /\ nInit' = r
        /\ hasCallback' = [hasCallback EXCEPT ![r] = cb]
        /\ IF loaded.threw
           THEN /\ thrown' = [thrown EXCEPT ![r] = "json_parse"]
                /\ pc' = [pc EXCEPT ![r] = "aborted"]
                /\ UNCHANGED <<document, docBy, wpc, nWorkers>>
           ELSE /\ document' = loaded.value
                /\ docBy' = 0
                /\ GenerateMetadata(r)
  /\ UNCHANGED fnVars
  /\ UNCHANGED <<fs, moduleCache, annotations, metadata, errors, fileBy>>

-----------------------------------------------------------------------------
(* The worker thread (workers/worker.ts).  It runs in parallel with the    *)
(* main thread and with the other runs' workers.                           *)

\* logger.error(...): `errors` keeps which kinds of error line were written.
Log(tag) == errors' = errors \cup {tag}

\* What the generator and the transform leave on disk: the transform's
\* output is the compiled content of the metadata.ts it read.
TsFile(r) == [kind |-> "ts", gen |-> Gen(r)]
JsFile(ts, r) == [kind |-> "js", gen |-> ts.gen, by |-> r]

\* The module the process keeps of an imported file: its content.
Module(js) == [kind |-> "js", gen |-> js.gen]

\* Mutant of WorkerBegin: the stale metadata.ts / metadata.js are kept.
WorkerBeginKeepsStale(r) ==
  /\ wpc[r] = "start"
  /\ fs' = fs
  /\ wpc' = [wpc EXCEPT ![r] =
               IF Exists(fs, TsConfigPath) THEN "generating" ELSE "posted_fail"]
  /\ UNCHANGED fnVars
  /\ UNCHANGED <<document, moduleCache, annotations, nInit, nWorkers, pc,
                 hasCallback, metadata, thrown, errors, docBy, fileBy>>

\* worker.ts 29-40: delete the stale metadata.ts / metadata.js, then look
\* for tsconfig.json; its absence is thrown and posted as a failure result.
WorkerBegin(r) ==
  /\ wpc[r] = "start"
  /\ fs' = [fs EXCEPT ![MetadataTsPath] = Absent, ![MetadataJsPath] = Absent]
  /\ wpc' = [wpc EXCEPT ![r] =
               IF Exists(fs, TsConfigPath) THEN "generating" ELSE "posted_fail"]
  /\ UNCHANGED fnVars
  /\ UNCHANGED <<document, moduleCache, annotations, nInit, nWorkers, pc,
                 hasCallback, metadata, thrown, errors, docBy, fileBy>>

\* worker.ts 55-85: the external generator writes metadata.ts (emitted) or
\* not, and returns or throws; a throw is swallowed when metadata.ts exists
\* afterwards ("tolerating") and posted as a failure result otherwise.
WorkerGenerate(r) ==
  /\ wpc[r] = "generating"
  /\ \E emitted \in BOOLEAN, threw \in BOOLEAN :
       LET after == IF emitted THEN [fs EXCEPT ![MetadataTsPath] = TsFile(r)]
                    ELSE fs
       IN /\ fs' = after
          /\ wpc' = [wpc EXCEPT ![r] =
                       IF threw
                       THEN IF Exists(after, MetadataTsPath)
                            THEN "tolerating" ELSE "posted_fail"
                       ELSE "transforming"]
  /\ UNCHANGED fnVars
  /\ UNCHANGED <<document, moduleCache, annotations, nInit, nWorkers, pc,
                 hasCallback, metadata, thrown, errors, docBy, fileBy>>

\* Mutant of WorkerTransform: an error of the compilation is rethrown and
\* posted as a failure result.
WorkerTransformRethrows(r) ==
  /\ wpc[r] \in {"transforming", "tolerating"}
  /\ IF Exists(fs, MetadataTsPath)
     THEN \E ok \in BOOLEAN :
            IF ok
            THEN /\ fs' = [fs EXCEPT ![MetadataJsPath] = JsFile(fs[MetadataTsPath], r)]
                 /\ wpc' = [wpc EXCEPT ![r] = "posted_ok"]
                 /\ UNCHANGED errors
            ELSE /\ wpc' = [wpc EXCEPT ![r] = "posted_fail"]
                 /\ UNCHANGED <<fs, errors>>
     ELSE /\ wpc' = [wpc EXCEPT ![r] = "posted_ok"]
          /\ UNCHANGED <<fs, errors>>
  /\ UNCHANGED fnVars
  /\ UNCHANGED <<document, moduleCache, annotations, nInit, nWorkers, pc,
                 hasCallback, metadata, thrown, docBy, fileBy>>

\* worker.ts 87-120: when metadata.ts exists, compile it and write
\* metadata.js; an error in there is sent as an error log message, which
\* the caller's message handler writes with logger.error before it sees the
\* result. Then post success.
WorkerTransform(r) ==
  /\ wpc[r] \in {"transforming", "tolerating"}
  /\ IF Exists(fs, MetadataTsPath)
     THEN \E ok \in BOOLEAN :
            IF ok
            THEN /\ fs' = [fs EXCEPT ![MetadataJsPath] = JsFile(fs[MetadataTsPath], r)]
                 /\ UNCHANGED errors
            ELSE /\ Log("transform_error")
                 /\ UNCHANGED fs
     ELSE UNCHANGED <<fs, errors>>
  /\ wpc' = [wpc EXCEPT ![r] = "posted_ok"]
  /\ UNCHANGED fnVars
  /\ UNCHANGED <<document, moduleCache, annotations, nInit, nWorkers, pc,
                 hasCallback, metadata, thrown, docBy, fileBy>>

\* Mutant of WorkerCrash: the thread throws after it has posted its result.
WorkerCrashAfterResult(r) ==
  /\ wpc[r] \in {"start", "posted_ok"}
  /\ wpc' = [wpc EXCEPT ![r] = "crashed"]
  /\ UNCHANGED fnVars
  /\ UNCHANGED <<document, fs, moduleCache, annotations, nInit, nWorkers, pc,
                 hasCallback, metadata, thrown, errors, docBy, fileBy>>

\* An error the worker's try block does not see (the script fails to load):
\* the thread ends with an 'error' event.
WorkerCrash(r) ==
  /\ wpc[r] = "start"
  /\ wpc' = [wpc EXCEPT ![r] = "crashed"]
  /\ UNCHANGED fnVars
  /\ UNCHANGED <<document, fs, moduleCache, annotations, nInit, nWorkers, pc,
                 hasCallback, metadata, thrown, errors, docBy, fileBy>>

\* The thread ends with a non-zero exit code and no result message (the
\* external generator ends the thread).
WorkerAbort(r) ==
  /\ wpc[r] = "generating"
  /\ wpc' = [wpc EXCEPT ![r] = "exited"]
  /\ UNCHANGED fnVars
  /\ UNCHANGED <<document, fs, moduleCache, annotations, nInit, nWorkers, pc,
                 hasCallback, metadata, thrown, errors, docBy, fileBy>>

-----------------------------------------------------------------------------
(* SwaggerMetadataWorker's handlers on the main thread.                    *)

\* The run's handling is over: pc, and its closure's locals out of scope.
EndRun(r, to) ==
  /\ pc' = [pc EXCEPT ![r] = to]
  /\ metadata' = [metadata EXCEPT ![r] = NoMeta]
  /\ hasCallback' = [hasCallback EXCEPT ![r] = FALSE]

\* Mutant of OnResult: the handler does not look at message.success and
\* enters the loader for a failure message too.
OnResultIgnoresFailure(r) ==
  /\ pc[r] = "waiting"
  /\ wpc[r] \in {"posted_ok", "posted_fail"}
  /\ IF ~Exists(fs, MetadataJsPath)
     THEN /\ Log("worker_catch")
          /\ EndRun(r, "failed")
     ELSE /\ pc' = [pc EXCEPT ![r] = "importing"]
          /\ UNCHANGED <<errors, metadata, hasCallback>>
  /\ UNCHANGED fnVars
  /\ UNCHANGED <<document, fs, moduleCache, annotations, nInit, nWorkers, wpc,
                 thrown, docBy, fileBy>>

\* Mutant of OnResult: the loader imports metadata.js without checking that
\* it exists.
OnResultSkipsExistsCheck(r) ==
  /\ pc[r] = "waiting"
  /\ wpc[r] \in {"posted_ok", "posted_fail"}
  /\ IF wpc[r] = "posted_fail"
     THEN /\ Log("generation_failed")
          /\ EndRun(r, "failed")
     ELSE /\ pc' = [pc EXCEPT ![r] = "importing"]
          /\ UNCHANGED <<errors, metadata, hasCallback>>
  /\ UNCHANGED fnVars
  /\ UNCHANGED <<document, fs, moduleCache, annotations, nInit, nWorkers, wpc,
                 thrown, docBy, fileBy>>

\* worker.on('message') for a result message, up to its first suspension:
\* terminate the worker; on failure log it; on success enter
\* loadMetadataFromFile, whose existsSync check throws when metadata.js is
\* absent (caught and logged by the handler).
OnResult(r) ==
  /\ pc[r] = "waiting"
  /\ wpc[r] \in {"posted_ok", "posted_fail"}
  /\ IF wpc[r] = "posted_fail"
     THEN /\ Log("generation_failed")
          /\ EndRun(r, "failed")
     ELSE IF ~Exists(fs, MetadataJsPath)
          THEN /\ Log("worker_catch")
               /\ EndRun(r, "failed")
          ELSE /\ pc' = [pc EXCEPT ![r] = "importing"]
               /\ UNCHANGED <<errors, metadata, hasCallback>>
  /\ UNCHANGED fnVars
  /\ UNCHANGED <<document, fs, moduleCache, annotations, nInit, nWorkers, wpc,
                 thrown, docBy, fileBy>>

\* worker.on('error'): log, terminate.
OnError(r) ==
  /\ pc[r] = "waiting"
  /\ wpc[r] = "crashed"
  /\ Log("worker_error")
  /\ EndRun(r, "failed")
  /\ UNCHANGED fnVars
  /\ UNCHANGED <<document, fs, moduleCache, annotations, nInit, nWorkers, wpc,
                 thrown, docBy, fileBy>>

\* worker.on('exit'): a non-zero code is logged, nothing else is done. A
\* thread that aborted, crashed or was terminated exits non-zero; one that
\* had nothing left to do before terminate() reached it exits with 0, which
\* writes no error line. After an 'error' or a result message the event
\* changes only the log (a line of a kind already in `errors` adds nothing).
OnExit(r) ==
  /\ \/ /\ pc[r] = "waiting"
        /\ wpc[r] = "exited"
        /\ Log("exit_code")
        /\ EndRun(r, "failed")
     \/ /\ pc[r] \notin {"idle", "aborted", "waiting"}
        /\ "exit_code" \notin errors
        /\ wpc[r] \in {"crashed", "posted_ok", "posted_fail"}
        /\ Log("exit_code")
        /\ UNCHANGED <<pc, metadata, hasCallback>>
  /\ UNCHANGED fnVars
  /\ UNCHANGED <<document, fs, moduleCache, annotations, nInit, nWorkers, wpc,
                 thrown, docBy, fileBy>>

\* Mutant of Import: the loaded metadata goes straight to the assembly,
\* without the decoration of the controllers.
ImportSkipsDecoration(r) ==
  /\ pc[r] = "importing"
  /\ IF moduleCache # Absent
     THEN /\ metadata' = [metadata EXCEPT ![r] = moduleCache.gen]
          /\ pc' = [pc EXCEPT ![r] = "assembling"]
          /\ UNCHANGED <<moduleCache, errors, hasCallback>>
     ELSE IF Exists(fs, MetadataJsPath)
          THEN /\ moduleCache' = Module(fs[MetadataJsPath])
               /\ metadata' = [metadata EXCEPT ![r] = fs[MetadataJsPath].gen]
               /\ pc' = [pc EXCEPT ![r] = "assembling"]
               /\ UNCHANGED <<errors, hasCallback>>
          ELSE /\ Log("worker_catch")
               /\ EndRun(r, "failed")
               /\ UNCHANGED moduleCache
  /\ UNCHANGED fnVars
  /\ UNCHANGED <<document, fs, annotations, nInit, nWorkers, wpc, thrown,
                 docBy, fileBy>>

\* loadMetadataFromFile after its check: `await import(metadataJsPath)` and
\* the module's factory. The module is read from disk the first time and
\* taken from the process's module cache afterwards; the read fails when
\* the file has gone meanwhile. Then SwaggerModule.loadPluginMetadata.
Import(r) ==
  /\ pc[r] = "importing"
  /\ IF moduleCache # Absent
     THEN /\ metadata' = [metadata EXCEPT ![r] = moduleCache.gen]
          /\ pc' = [pc EXCEPT ![r] = "decorating"]
          /\ UNCHANGED <<moduleCache, errors, hasCallback>>
     ELSE IF Exists(fs, MetadataJsPath)
          THEN /\ moduleCache' = Module(fs[MetadataJsPath])
               /\ metadata' = [metadata EXCEPT ![r] = fs[MetadataJsPath].gen]
               /\ pc' = [pc EXCEPT ![r] = "decorating"]
               /\ UNCHANGED <<errors, hasCallback>>
          ELSE /\ Log("worker_catch")
               /\ EndRun(r, "failed")
               /\ UNCHANGED moduleCache
  /\ UNCHANGED fnVars
  /\ UNCHANGED <<document, fs, annotations, nInit, nWorkers, wpc, thrown,
                 docBy, fileBy>>

-----------------------------------------------------------------------------
(* SwaggerDocumentService.setup and the completion callback.               *)

\* Mutant of SetupError: the exception is logged and the closure goes on to
\* the completion callback.
SetupErrorThenCallback(r) ==
  /\ Log("setup_error")
  /\ pc' = [pc EXCEPT ![r] = "setup_done"]
  /\ UNCHANGED <<metadata, hasCallback>>

\* An exception out of setup(): caught in initialize's closure and logged;
\* the callback is not run.
SetupError(r) ==
  /\ Log("setup_error")
  /\ EndRun(r, "failed")

\* setup() up to its await: applyDecorators rewrites the annotations on the
\* live prototypes from the run's metadata, then getModels is entered.
Decorate(r) ==
  /\ pc[r] = "decorating"
  /\ \E ok \in BOOLEAN :
       IF ok
       THEN /\ annotations' = metadata[r]
            /\ pc' = [pc EXCEPT ![r] = "assembling"]
            /\ UNCHANGED <<errors, metadata, hasCallback>>
       ELSE /\ SetupError(r)
            /\ UNCHANGED annotations
  /\ UNCHANGED fnVars
  /\ UNCHANGED <<document, fs, moduleCache, nInit, nWorkers, wpc, thrown,
                 docBy, fileBy>>

\* The steps of setup() after `await getModels`, in execution order.
AssembleSteps == <<"models", "build", "create", "assign", "write">>

\* Position of a step in AssembleSteps; "none" (no failure) is past the end.
StepIndex(name) ==
  IF name = "none" THEN Len(AssembleSteps) + 1
  ELSE CHOOSE i \in 1..Len(AssembleSteps) : AssembleSteps[i] = name

\* Whether step `name` has been executed when the first failing step is
\* failAt.
Executed(name, failAt) == StepIndex(name) < StepIndex(failAt)

\* Mutant of WriteReached: an existing api-metadata.json is not overwritten.
WriteReachedOnce(failAt) == Executed("write", failAt) /\ ~Exists(fs, WritePath)

\* Whether setup() reaches and completes writeFileSync.
WriteReached(failAt) == Executed("write", failAt)

\* setup() after `await getModels`: the models, the builder's skeleton,
\* createDocument, the assignment to this.document and writeFileSync, in
\* this order and without a suspension point; each but the assignment can
\* throw, which ends setup() there.
Assemble(r) ==
  /\ pc[r] = "assembling"
  /\ \E failAt \in {"models", "build", "create", "write", "none"} :
       LET assembled == CreateDocument(annotations, metadata[r]) IN
       /\ IF Executed("assign", failAt)
          THEN document' = assembled /\ docBy' = r
          ELSE UNCHANGED <<document, docBy>>
       /\ IF WriteReached(failAt)
          THEN /\ fs' = WriteFileSync(fs, WritePath, Stringify(assembled))
               /\ fileBy' = r
          ELSE UNCHANGED <<fs, fileBy>>
       /\ IF failAt = "none"
          THEN /\ pc' = [pc EXCEPT ![r] = "setup_done"]
               /\ metadata' = [metadata EXCEPT ![r] = NoMeta]
               /\ UNCHANGED <<errors, hasCallback>>
          ELSE SetupError(r)
  /\ UNCHANGED fnVars
  /\ UNCHANGED <<moduleCache, annotations, nInit, nWorkers, wpc, thrown>>

\* Mutant of Complete: a failing callback makes the service drop the
\* document it has just assembled.
CompleteRollsBack(r) ==
  /\ pc[r] = "setup_done"
  /\ EndRun(r, "done")
  /\ IF hasCallback[r]
     THEN \E cbThrows \in BOOLEAN :
            IF cbThrows
            THEN Log("callback_error") /\ document' = Unset /\ docBy' = 0
            ELSE UNCHANGED <<errors, document, docBy>>
     ELSE UNCHANGED <<errors, document, docBy>>
  /\ UNCHANGED fnVars
  /\ UNCHANGED <<fs, moduleCache, annotations, nInit, nWorkers, wpc, thrown,
                 fileBy>>

\* initialize's closure after `await this.setup(...)`: log the completion
\* and run the caller's callback, whose exception or rejection is caught
\* and logged.
Complete(r) ==
  /\ pc[r] = "setup_done"
  /\ EndRun(r, "done")
  /\ IF hasCallback[r]
     THEN \E cbThrows \in BOOLEAN :
            IF cbThrows THEN Log("callback_error") ELSE UNCHANGED errors
     ELSE UNCHANGED errors
  /\ UNCHANGED fnVars
  /\ UNCHANGED <<document, fs, moduleCache, annotations, nInit, nWorkers, wpc,
                 thrown, docBy, fileBy>>

-----------------------------------------------------------------------------

Next ==
  \/ \E cb \in BOOLEAN : Initialize(cb)
  \/ \E r \in Runs : WorkerBegin(r)
  \/ \E r \in Runs : WorkerGenerate(r)
  \/ \E r \in Runs : WorkerTransform(r)
  \/ \E r \in Runs : WorkerCrash(r)
  \/ \E r \in Runs : WorkerAbort(r)
  \/ \E r \in Runs : OnResult(r)
  \/ \E r \in Runs : OnError(r)
  \/ \E r \in Runs : OnExit(r)
  \/ \E r \in Runs : Import(r)
  \/ \E r \in Runs : Decorate(r)
  \/ \E r \in Runs : Assemble(r)
  \/ \E r \in Runs : Complete(r)

Spec == Init /\ [][Next]_vars

-----------------------------------------------------------------------------
(* Claims.                                                                 *)

\* Run r's post-generation pipeline (setup) fails in this step.
PipelineFails(r) == pc[r] \in {"decorating", "assembling"} /\ pc'[r] = "failed"

\* C1: a failing step of the post-generation pipeline (decoration, model
\* processing, skeleton build, document assembly, file write) leaves
\* getDocument() at the value it had before the run's pipeline: no step of a
\* failing pipeline run changes the document.
C1_FailedPipelineKeepsDocument ==
  [][\A r \in Runs : PipelineFails(r) => GetDocument' = GetDocument]_vars

\* C2: the in-memory document is absent only while no document was ever
\* generated or loaded: once getDocument() has returned a document it never
\* returns unset again.
C2_DocumentNeverUnsetAgain ==
  [][GetDocument # Unset => GetDocument' # Unset]_vars

\* Run r's generation pipeline has completed successfully.
Succeeded(r) == pc[r] \in {"setup_done", "done"}

\* C3: with no persisted document at initialize() on a fresh service and no
\* further initialize() call, getDocument() is unset in every state before
\* the first successful completion of the pipeline and is the assembled
\* (and persisted) document in every state after it.
C3_UnsetUntilFirstSuccess ==
  (nInit = 1 /\ ~Exists(fs, ReadPath) /\ thrown[1] = "none") =>
     IF Succeeded(1)
     THEN GetDocument # Unset /\ fs[WritePath] = Stringify(GetDocument)
     ELSE GetDocument = Unset

\* C5: initialize() never raises an exception to its caller, whatever fails
\* (missing worker script, missing tsconfig.json, unreadable cached
\* document).
C5_InitializeNeverThrows == \A r \in Runs : thrown[r] = "none"

\* C6: every initialize() call starts exactly one worker, whatever the
\* outcome of the cached-document load (absent, valid, or not parseable).
\* (Stated for an installation whose worker script exists, so that only the
\* outcome of the cached-document load varies.)
C6_OneWorkerPerInitialize ==
  Exists(fs, MetadataJsWorkerPath) =>
    (nWorkers = nInit /\ \A r \in 1..nInit : wpc[r] # "none")

\* C9: initialize() reads the persisted document from the path setup()
\* writes it to, so a document persisted by a successful generation is the
\* one a later initialize() loads as its cached value.
C9_InitializeLoadsPersisted ==
  [][(nInit' = nInit + 1 /\ Parseable(fs[WritePath]))
        => GetDocument' = Parse(fs[WritePath])]_vars

\* The stages of a run's main-thread handling that belong to the
\* post-generation pipeline (loader, setup, callback).
PipelineStages == {"importing", "decorating", "assembling", "setup_done", "done"}

\* C4: initialize() returns before any step of that call's pipeline has
\* run: the step that makes the call leaves the new run waiting for its
\* worker (or aborted) and touches neither the annotations, the files, the
\* module cache nor the log, and a run is in a pipeline stage only after its
\* worker has posted its success message.
C4_InitializeReturnsBeforePipeline ==
  /\ [](\A r \in Runs : pc[r] \in PipelineStages => wpc[r] = "posted_ok")
  /\ [][nInit' # nInit =>
          /\ pc'[nInit'] \in {"waiting", "aborted"}
          /\ metadata'[nInit'] = NoMeta
          /\ UNCHANGED <<annotations, fs, moduleCache, errors, fileBy>>]_vars

\* C4 witness: initialize() has returned and the worker has posted its
\* result, yet no pipeline step of the run has been taken.
C4_Witness ==
  nInit = 1 /\ pc[1] = "waiting" /\ wpc[1] = "posted_ok" /\ metadata[1] = NoMeta

\* C7: the step that runs the caller's callback ends the run as done
\* whether or not the callback throws, writes no error line other than the
\* callback's, and changes neither the in-memory document nor any file.
C7_CallbackErrorKeepsState ==
  [][\A r \in Runs :
       (pc[r] = "setup_done" /\ hasCallback[r] /\ pc'[r] # pc[r]) =>
          /\ pc'[r] = "done"
          /\ errors' \subseteq errors \cup {"callback_error"}
          /\ GetDocument' = GetDocument
          /\ fs' = fs]_vars

\* C7 witness: a callback has thrown, and document and file are the ones
\* the run's pipeline produced.
C7_Witness ==
  \E r \in Runs :
    /\ pc[r] = "done"
    /\ "callback_error" \in errors
    /\ docBy = r /\ fileBy = r
    /\ GetDocument # Unset
    /\ fs[WritePath] = Stringify(GetDocument)

\* Run r's worker reported no success: failure message, 'error' event, or
\* abnormal exit.
WorkerFailed(r) == wpc[r] \in {"posted_fail", "crashed", "exited"}

\* The error line the handler of that failure writes.
FailureLine(r) ==
  CASE wpc[r] = "posted_fail" -> "generation_failed"
    [] wpc[r] = "crashed" -> "worker_error"
    [] wpc[r] = "exited" -> "exit_code"

\* C8: when the worker posts a failure message, emits an error or exits
\* abnormally, the run never enters the pipeline, the handler of the failure
\* writes its error line and changes neither the document, the annotations
\* nor any file, and a worker is started only by a call of initialize().
C8_WorkerFailureNoSetupNoRetry ==
  /\ [](\A r \in Runs : WorkerFailed(r) =>
          /\ pc[r] \in {"waiting", "failed"}
          /\ metadata[r] = NoMeta
          /\ (pc[r] = "failed" => FailureLine(r) \in errors))
  /\ [][/\ \A r \in Runs :
             (WorkerFailed(r) /\ pc[r] = "waiting" /\ pc'[r] # "waiting") =>
               /\ GetDocument' = GetDocument
               /\ UNCHANGED <<annotations, fs, moduleCache, nWorkers, wpc>>
        /\ (nWorkers' # nWorkers => nInit' = nInit + 1)]_vars

\* C8 witness: one worker crashed, another posted a failure, both were
\* handled, and the document is still the cached one.
C8_Witness ==
  /\ pc[1] = "failed" /\ wpc[1] = "crashed"
  /\ pc[2] = "failed" /\ wpc[2] = "posted_fail"
  /\ GetDocument = CachedDoc
  /\ nWorkers = 2

\* C10: for overlapping initialize() calls whose pipelines all succeed,
\* each call has spawned its own worker and the final in-memory document and
\* the final persisted file come from the same run, the one whose assembly
\* ran last (docBy: the run that assigned the document last).
C10_LastWriterWinsOnBoth ==
  (nInit >= 2 /\ \A r \in 1..nInit : Succeeded(r)) =>
     /\ nWorkers = nInit
     /\ docBy \in 1..nInit
     /\ fileBy = docBy
     /\ fs[WritePath] = Stringify(GetDocument)

\* C10 witness: two runs succeeded and the run whose initialize() came first
\* assembled last.
C10_Witness ==
  /\ nInit = 2 /\ pc[1] = "done" /\ pc[2] = "done"
  /\ docBy = 1 /\ fileBy = 1

\* The steps of a successful run in order, as the positions of its handler.
RunSequence ==
  <<"waiting", "importing", "decorating", "assembling", "setup_done", "done">>

\* Run r moves to position `to` in this step.
Enters(r, to) == pc[r] # to /\ pc'[r] = to

\* C19: on worker success one run's steps happen in sequence: metadata load,
\* decoration, model collection and assembly, replacement of the in-memory
\* document, write of the file, completion callback; a run's position only
\* moves to the next one of the sequence (or to failure), the document is
\* assembled only by a run that has decorated, from its own metadata, and
\* the file is written only together with and from the replaced document.
C19_StepsInSequence ==
  [][\A r \in Runs :
       /\ \A k \in 2..Len(RunSequence) :
            Enters(r, RunSequence[k]) => pc[r] = RunSequence[k - 1]
       /\ Enters(r, "importing") => wpc[r] = "posted_ok"
       /\ Enters(r, "decorating") => metadata'[r] # NoMeta
       /\ Enters(r, "assembling") => annotations' = metadata[r]
       /\ (docBy' = r /\ <<document, docBy>> # <<document', docBy'>>) =>
            /\ pc[r] = "assembling"
            /\ document' = CreateDocument(annotations, metadata[r])
       /\ (fileBy' = r /\ <<fs[WritePath], fileBy>> # <<fs'[WritePath], fileBy'>>) =>
            /\ pc[r] = "assembling"
            /\ docBy' = r
            /\ fs'[WritePath] = Stringify(document')
       /\ Enters(r, "setup_done") => (docBy' = r /\ fileBy' = r)
    ]_vars

C19_Witness ==
  /\ pc[1] = "done"
  /\ pc[2] = "idle"
  /\ docBy = 1 /\ fileBy = 1
  /\ annotations = Gen(1)
  /\ document = CreateDocument(Gen(1), Gen(1))
  /\ fs[WritePath] = Stringify(document)

\* The external generator fails in this step of run r's worker.
GeneratorFails(r) ==
  wpc[r] = "generating" /\ wpc'[r] \in {"tolerating", "posted_fail"}

\* The worker of run r goes on after the generator's failure.
Continues(r) == wpc'[r] = "tolerating"

\* C20 as stated: when the generator fails, the run continues (and reports
\* success) if a generated artifact from a prior run is on disk when the
\* generator is started, and reports failure otherwise.
C20_StaleArtifactFallback ==
  [][\A r \in Runs :
       GeneratorFails(r) =>
         (Continues(r) <=>
            (Exists(fs, MetadataTsPath) /\ fs[MetadataTsPath] # TsFile(r)))
    ]_vars

\* C20 amended: when the generator fails, the run continues and reports
\* success exactly if metadata.ts exists after the failed generation; the
\* artifacts of an earlier process are deleted when the worker starts, so
\* what exists then was written by a generation of this process, never by
\* a prior one.
C20_ContinuesIffOutputProduced ==
  /\ [][\A r \in Runs :
          /\ GeneratorFails(r) =>
               (Continues(r) <=> Exists(fs', MetadataTsPath))
          /\ (wpc[r] = "tolerating" /\ wpc'[r] # "tolerating") =>
               wpc'[r] = "posted_ok"
       ]_vars
  /\ [](\A r \in Runs :
          wpc[r] \in {"generating", "tolerating", "transforming", "posted_ok"} =>
            (fs[MetadataTsPath] # StaleTs /\ fs[MetadataJsPath] # StaleJs))

C20_Witness ==
  /\ wpc[1] = "tolerating"
  /\ wpc[2] = "none"
  /\ fs[MetadataTsPath] = TsFile(1)
  /\ fs[ReadPath] = Absent

-----------------------------------------------------------------------------
(* The decorator applier's synchronous functions, studied call by call.    *)
(* A text is a sequence of characters; `undefined` is a value no text      *)
(* equals.                                                                 *)

MaxLen == 9

\* The characters of a comment text: a letter, whitespace, the separator's
\* character.
Chars == {"a", " ", "="}

Texts == UNION {[1..n -> Chars] : n \in 0..MaxLen}

\* JavaScript's undefined.
Undef == <<"undefined">>

\* The separator of summary and description.
Separator == <<"=", "=", "=">>

\* The positions of s at which the separator occurs.
Occurrences(s) ==
  {i \in 1..Len(s) : i + 2 <= Len(s) /\ SubSeq(s, i, i + 2) = Separator}

\* A trim that removes leading whitespace only.
TrimStart(s) ==
  IF \A i \in 1..Len(s) : s[i] = " "
  THEN <<>>
  ELSE SubSeq(s, CHOOSE i \in 1..Len(s) :
                   s[i] # " " /\ \A j \in 1..(i - 1) : s[j] = " ", Len(s))

\* String.prototype.trim: the text without leading and trailing whitespace.
Trim(s) ==
  IF \A i \in 1..Len(s) : s[i] = " "
  THEN <<>>
  ELSE LET first == CHOOSE i \in 1..Len(s) :
                      s[i] # " " /\ \A j \in 1..(i - 1) : s[j] = " "
           last  == CHOOSE i \in 1..Len(s) :
                      s[i] # " " /\ \A j \in (i + 1)..Len(s) : s[j] = " "
       IN SubSeq(s, first, last)

\* String.prototype.split('==='): the pieces between the occurrences of the
\* separator, found left to right without overlap.
RECURSIVE Split(_)
Split(s) ==
  IF Occurrences(s) = {}
  THEN <<s>>
  ELSE LET i == CHOOSE k \in Occurrences(s) : \A m \in Occurrences(s) : k <= m
       IN <<SubSeq(s, 1, i - 1)>> \o Split(SubSeq(s, i + 3, Len(s)))

\* The fields of an operation annotation the model follows.
Operation(summary, description, operationId) ==
  [summary |-> summary, description |-> description, operationId |-> operationId]

\* No operation annotation on the method: spreading it adds no field.
NoInfo == Operation(Undef, Undef, Undef)

\* A buildOperation that never derives a summary.
BuildOperationDescriptionOnly(info, description) ==
  [info EXCEPT !.description =
     IF description = Undef THEN Undef ELSE Trim(description)]

\* buildOperation: the operation options from the existing annotation and the
\* comment text.
BuildOperation(info, description) ==
  LET operation == [info EXCEPT !.description = description]
  IN IF description = Undef \/ description = <<>>
     THEN operation
     ELSE LET parts == [k \in 1..Len(Split(description)) |->
                          Trim(Split(description)[k])]
          IN IF Len(parts) = 1
             THEN [operation EXCEPT !.description = parts[1]]
             ELSE [operation EXCEPT !.summary = parts[1],
                                    !.description = parts[2]]

\* The annotations a method may carry before the applier runs.
Infos ==
  { NoInfo,
    Operation(<<>>, <<"a">>, Undef),
    Operation(<<"a", "a">>, <<"a">>, <<"a">>) }

BuildOperationCalls ==
  [fn : {"buildOperation"}, info : Infos, description : Texts \cup {Undef}]

\* The value true of a metadata marker.
JsTrue == <<"true">>

\* A ?? that never looks at its right-hand side.
CoalesceLeft(a, b) == a

\* a ?? b
Coalesce(a, b) == IF a = Undef THEN b ELSE a

\* SwaggerAppCommonSkip: what the marker stores on a class or a method.
SwaggerAppCommonSkip == JsTrue

\* The declared return type of a method in the metadata. `name` is what
\* type.name interpolates to: an array literal [Class] has no name.
NoType == [kind |-> "none", name |-> "undefined", items |-> "undefined"]

ClassType(name) == [kind |-> "class", name |-> name, items |-> "undefined"]

ArrayType(name) == [kind |-> "array", name |-> "undefined", items |-> name]

ObjectType == ClassType("Object")

Types == {NoType, ObjectType, ClassType("UserDto"), ArrayType("UserDto")}

\* getSchemaPath of a name.
GetSchemaPath(name) == <<"#/components/schemas/", name>>

\* options.commonResponseInfo is not configured.
NoCommonResponseInfo == [name |-> "undefined", properties |-> "undefined"]

ModuleOptions ==
  { [commonResponseInfo |-> NoCommonResponseInfo],
    [commonResponseInfo |-> [name |-> "CommonResponse", properties |-> "data"]] }

\* The models of the metadata: the properties of each class by name.
ModelSets ==
  { [n \in {"UserDto"} |-> [k \in {"id"} |-> [type |-> "Number"]]],
    [n \in {"UserDto", "CommonResponse"} |->
       IF n = "UserDto"
       THEN [k \in {"id"} |-> [type |-> "Number"]]
       ELSE [k \in {"code", "data"} |-> [type |-> "Number"]]] }

\* findCommonProperties: the envelope's properties; undefined spreads to
\* no property at all.
FindCommonProperties(models, options) ==
  IF options.commonResponseInfo = NoCommonResponseInfo
  THEN <<>>
  ELSE IF options.commonResponseInfo.name \in DOMAIN models
       THEN models[options.commonResponseInfo.name]
       ELSE <<>>

\* A buildResponseProperties that refers to the declared type whatever it is.
BuildResponsePropertiesAlwaysRef(type, commonProperties, options) ==
  LET payload == options.commonResponseInfo.properties
  IN [k \in (DOMAIN commonProperties) \cup {payload} |->
        IF k = payload
        THEN [ref |-> GetSchemaPath(type.name)]
        ELSE commonProperties[k]]

\* buildResponseProperties: the envelope's properties with the payload
\* property set from the declared type.
BuildResponseProperties(type, commonProperties, options) ==
  LET payload == options.commonResponseInfo.properties
  IN [k \in (DOMAIN commonProperties) \cup {payload} |->
        IF k = payload
        THEN IF type.name # "Object"
             THEN [ref |-> GetSchemaPath(type.name)]
             ELSE [type |-> "object"]
        ELSE commonProperties[k]]

\* An ApiOperation that appends to what the method already carries.
ApiOperationAccumulates(previous, options) ==
  [summary     |-> IF options.summary = Undef THEN <<>> ELSE options.summary,
   description |-> IF previous.description = Undef \/ options.description = Undef
                   THEN options.description
                   ELSE previous.description \o options.description,
   operationId |-> options.operationId]

\* ApiOperation: the stored operation replaces the previous one; summary
\* defaults to the empty text and undefined fields are not stored.
ApiOperation(previous, options) ==
  [summary     |-> IF options.summary = Undef THEN <<>> ELSE options.summary,
   description |-> options.description,
   operationId |-> options.operationId]

\* The response statuses a method may carry an annotation for.
Statuses == {"200", "404"}

\* No response annotation for a status.
NoResponse == [none |-> TRUE]

\* ApiOkResponse: the response of status 200 is replaced, the others kept.
ApiOkResponse(previous, schema) == [previous EXCEPT !["200"] = schema]

\* The annotations of one method.
Annotated(operation, responses) == [operation |-> operation, responses |-> responses]

\* applyOperationDecorator
ApplyOperationDecorator(store, operation) ==
  Annotated(ApiOperation(store.operation, operation), store.responses)

\* applyCommonResponseDecorator
ApplyCommonResponseDecorator(store, operation, type, commonProperties, options) ==
  LET properties == BuildResponseProperties(type, commonProperties, options)
  IN Annotated(
       ApiOperation(store.operation, operation),
       ApiOkResponse(store.responses,
         [allOf |-> << [ref |-> GetSchemaPath(options.commonResponseInfo.name)],
                       [properties |-> properties] >>]))

\* processMethod on a method whose annotations are `store`, for the call's
\* controller, metadata and options.
ProcessMethod(store, c) ==
  IF ~c.handler
  THEN store
  ELSE LET skipCommonResponse == Coalesce(c.classSkip, c.methodSkip)
           operation == BuildOperation(store.operation, c.description)
           shouldApplyCommonResponse ==
             /\ c.type # NoType
             /\ skipCommonResponse = Undef
             /\ c.options.commonResponseInfo # NoCommonResponseInfo
       IN IF shouldApplyCommonResponse
          THEN ApplyCommonResponseDecorator(store, operation, c.type,
                 FindCommonProperties(c.models, c.options), c.options)
          ELSE ApplyOperationDecorator(store, operation)

\* How many generations apply the decorators to the same method.
MaxPasses == 2

\* The comment texts of the methods a controller is processed with.
MethodTexts ==
  { Undef, <<>>, <<" ", "a">>, <<"a", " ", "=", "=", "=", " ", "a">> }

\* The annotations a method carries from its own decorators.
InitialStores ==
  { Annotated(i, r) :
      i \in Infos,
      r \in { [s \in Statuses |-> NoResponse],
              [s \in Statuses |-> [type |-> "string"]] } }

ProcessMethodCalls ==
  [fn : {"processMethod"}, handler : BOOLEAN, description : MethodTexts,
   type : Types, classSkip : {Undef, SwaggerAppCommonSkip},
   methodSkip : {Undef, SwaggerAppCommonSkip}, options : ModuleOptions,
   models : ModelSets, store : InitialStores]

\* The injection tokens of the module's own providers.
SWAGGER_PLUGIN_OPTIONS == "SWAGGER_PLUGIN_OPTIONS"

HelperProviders ==
  <<"SwaggerDocumentBuilder", "SwaggerDecoratorApplier",
    "SwaggerModelProcessor", "SwaggerMetadataWorker">>

\* A provider: its token, how its value is made, what is injected into it.
Provider(token, how, inject) == [provide |-> token, how |-> how, inject |-> inject]

\* The providers both registration entry points list after the options
\* provider: the four helper classes and the service's factory.
ServiceProviders ==
  { Provider(HelperProviders[i], "class", <<>>) : i \in DOMAIN HelperProviders }
    \cup { Provider("SwaggerDocumentService", "factory",
                    HelperProviders \o <<SWAGGER_PLUGIN_OPTIONS>>) }

\* A dynamic module; a key the returned object does not have is empty.
DynamicModule(imports, providers, exports) ==
  [module |-> "SwaggerDocumentModule", imports |-> imports,
   providers |-> providers, exports |-> exports]

\* SwaggerDocumentModule.forRoot
ForRoot(options) ==
  DynamicModule({},
    {Provider(SWAGGER_PLUGIN_OPTIONS, "value", <<>>)} \cup ServiceProviders,
    {"SwaggerDocumentService", SWAGGER_PLUGIN_OPTIONS})

\* SwaggerDocumentModule.forRootAsync; options.inject || [] is options.inject
\* with the empty list for a missing one.
ForRootAsync(options) ==
  DynamicModule({},
    {Provider(SWAGGER_PLUGIN_OPTIONS, "factory", options.inject)}
      \cup ServiceProviders,
    {"SwaggerDocumentService", SWAGGER_PLUGIN_OPTIONS})

\* The modules an application may list, and what each exports.
AppModules == {"ConfigModule"}

ExportsOf(m) == IF m = "ConfigModule" THEN {"ConfigService"} ELSE {}

\* Nest resolves a token for a provider of module dm from dm's own providers,
\* from the exports of the modules dm imports, or from a global module.
Resolvable(dm, token, globals) ==
  \/ \E p \in dm.providers : p.provide = token
  \/ \E m \in dm.imports \cup globals : token \in ExportsOf(m)

ForRootCalls == [fn : {"forRoot"}, options : ModuleOptions]

ForRootAsyncCalls ==
  [fn : {"forRootAsync"}, imports : SUBSET AppModules,
   inject : {<<>>, <<"ConfigService">>}, globals : SUBSET AppModules]

\* A member a controller answers to: what prototype[name] is ("value": not
\* a function, "helper": a function without HTTP method metadata,
\* "handler": a function with it), whether it is an own property of the
\* controller's prototype or inherited from a base class, and the
\* annotations it carries.
Member(kind, own) ==
  [kind |-> kind, own |-> own,
   store |-> Annotated(NoInfo, [s \in Statuses |-> NoResponse])]

Members == {Member(k, o) : k \in {"value", "helper", "handler"}, o \in BOOLEAN}

\* A controller: its members by position among its property names.
Controllers == [1..2 -> Members]

\* The application's module graph: the controllers of each module.
Apps == UNION {[1..n -> Controllers] : n \in 1..2}

\* What the metadata and the options hold for every method of the
\* application in a call of applyDecorators.
MethodContext(member) ==
  [handler |-> member.kind = "handler", description |-> <<"a">>,
   type |-> ClassType("UserDto"), classSkip |-> Undef, methodSkip |-> Undef,
   options |-> [commonResponseInfo |->
                  [name |-> "CommonResponse", properties |-> "data"]],
   models |-> [n \in {"CommonResponse"} |->
                 [k \in {"code"} |-> [type |-> "Number"]]]]

\* processMethod on one property name of the prototype: a member that is
\* not a function is skipped, a function goes through the checks of
\* ProcessMethod.
ProcessMember(member) ==
  IF member.kind = "value"
  THEN member
  ELSE [member EXCEPT !.store = ProcessMethod(member.store, MethodContext(member))]

\* processController: processMethod for each of
\* Object.getOwnPropertyNames(prototype).
ProcessController(controller) ==
  [i \in DOMAIN controller |->
     IF controller[i].own THEN ProcessMember(controller[i]) ELSE controller[i]]

\* applyDecorators: processController for the controllers of every module.
ApplyDecorators(app) ==
  [m \in DOMAIN app |-> ProcessController(app[m])]

ApplyDecoratorsCalls == [fn : {"applyDecorators"}, app : Apps]

\* A property of a model's metadata: its enum (none, an array, or an object
\* given by its keys in Object.keys order) and its 'x-enum-varnames'.
Prop(enum, keys, varnames) == [enum |-> enum, keys |-> keys, varnames |-> varnames]

\* The enum objects of the metadata: a reverse-mapped numeric enum, a string
\* enum, an object literal with an empty key, an empty object.
EnumObjects == { <<"0", "1", "A", "B">>, <<"A", "B">>, <<"", "A">>, <<>> }

Props ==
  { Prop("none", <<>>, Undef), Prop("array", <<>>, Undef) }
    \cup { Prop("object", keys, Undef) : keys \in EnumObjects }

\* A value a model file exports: a class with a metadata factory, another
\* function, or something that is not a function.
Export(kind, props) == [kind |-> kind, props |-> props]

Exports ==
  { Export("value", <<>>), Export("function", <<>>) }
    \cup { Export("class", <<p>>) : p \in Props }

\* metadata['@nestjs/swagger']['models']: per file, the values it exports.
ModelFiles == UNION {[1..n -> Exports] : n \in 1..2}

ModelMetadata == UNION {[1..n -> ModelFiles] : n \in 1..2}

\* isNaN(Number(k)) for a key k: Number('0') and Number('1') are numbers,
\* Number('') is 0, Number of a name is NaN.
IsNaNNumber(k) == k \notin {"0", "1", ""}

\* The lines 19-23 of getModels on one property.
SetEnumVarnames(prop) ==
  IF prop.enum = "object"
  THEN [prop EXCEPT !.varnames = SelectSeq(prop.keys, IsNaNNumber)]
  ELSE prop

\* The functions among the values of one file, the properties of those
\* with a metadata factory normalized.
RECURSIVE FunctionsOf(_)
FunctionsOf(file) ==
  IF file = <<>>
  THEN <<>>
  ELSE LET item == Head(file)
           rest == FunctionsOf(Tail(file))
       IN IF item.kind = "value"
          THEN rest
          ELSE IF item.kind = "class"
               THEN << [item EXCEPT !.props =
                          [i \in DOMAIN item.props |-> SetEnumVarnames(item.props[i])]] >>
                      \o rest
               ELSE <<item>> \o rest

\* getModels: the reduce over the resolved files.
RECURSIVE GetModels(_)
GetModels(models) ==
  IF models = <<>>
  THEN <<>>
  ELSE GetModels(SubSeq(models, 1, Len(models) - 1))
         \o FunctionsOf(models[Len(models)])

GetModelsCalls == [fn : {"getModels"}, models : ModelMetadata]

\* The values of a builderOptions field: absent (undefined), a string with
\* n characters, an object, or a list of n elements.
FieldValue(kind, n) == [kind |-> kind, n |-> n]

NotGiven == FieldValue("absent", 0)

\* The fields of builderOptions read by build, by the type of their value.
StringFields == {"title", "description", "version", "termsOfService",
                 "openApiVersion", "basePath"}

ObjectFields == {"contact", "license", "externalDoc", "bearerAuth", "oAuth2",
                 "apiKey", "basicAuth", "cookieAuth"}

ListFields == {"servers", "tags", "extensions", "securitySchemes",
               "securityRequirements"}

SpreadFields == {"globalResponses", "globalParameters"}

BuilderFields == StringFields \cup ObjectFields \cup ListFields \cup SpreadFields

\* The values a configuration can give a field.
GivenValues(field) ==
  IF field \in StringFields THEN {FieldValue("string", 0), FieldValue("string", 1)}
  ELSE IF field \in ObjectFields THEN {FieldValue("object", 1)}
  ELSE {FieldValue("list", n) : n \in 0..2}

\* The largest number of fields a configuration sets.
MaxFields == 2

RECURSIVE FieldSets(_)
FieldSets(k) ==
  IF k = 0 THEN {{}}
  ELSE LET smaller == FieldSets(k - 1)
       IN smaller \cup {S \cup {f} : S \in smaller, f \in BuilderFields}

BuilderOptions ==
  UNION { { [f \in BuilderFields |-> IF f \in S THEN g[f] ELSE NotGiven] :
              g \in { h \in [S -> UNION {GivenValues(f) : f \in BuilderFields}] :
                        \A f \in S : h[f] \in GivenValues(f) } } :
          S \in FieldSets(MaxFields) }

\* A guard that lets every given value through.
TruthyWhenGiven(v) == v.kind # "absent"

\* `if (builderOptions.x)`: undefined and the empty string are falsy,
\* objects and arrays (the empty array too) are truthy.
Truthy(v) == v.kind \in {"object", "list"} \/ (v.kind = "string" /\ v.n > 0)

\* `builderOptions.x ?? d`: d when x is undefined.
Coalesced(v, d) == IF v.kind = "absent" THEN d ELSE v

\* The literals of lines 138-140.
Literal(text) == [kind |-> "literal", text |-> text]

\* A call on the DocumentBuilder: the method and what it is given.
BuilderCall(method, arg) == [method |-> method, arg |-> arg]

\* The method called for a field.
BuilderMethod ==
  [ title |-> "setTitle", description |-> "setDescription",
    version |-> "setVersion", termsOfService |-> "setTermsOfService",
    contact |-> "setContact", license |-> "setLicense",
    openApiVersion |-> "setOpenAPIVersion", basePath |-> "setBasePath",
    servers |-> "addServer", externalDoc |-> "setExternalDoc",
    tags |-> "addTag", extensions |-> "addExtension",
    securitySchemes |-> "addSecurity",
    globalResponses |-> "addGlobalResponse",
    globalParameters |-> "addGlobalParameters",
    securityRequirements |-> "addSecurityRequirements",
    bearerAuth |-> "addBearerAuth", oAuth2 |-> "addOAuth2",
    apiKey |-> "addApiKey", basicAuth |-> "addBasicAuth",
    cookieAuth |-> "addCookieAuth" ]

\* The guarded blocks of build in the order of the code; contact, license
\* and openApiVersion are there twice.
GuardedFields ==
  << "termsOfService", "contact", "license", "openApiVersion",
     "contact", "license", "openApiVersion", "basePath", "servers",
     "externalDoc", "tags", "extensions", "securitySchemes",
     "globalResponses", "globalParameters", "securityRequirements",
     "bearerAuth", "oAuth2", "apiKey", "basicAuth", "cookieAuth" >>

\* The calls one guarded block makes: none when the value is falsy, one per
\* element for a forEach, one otherwise.
GuardedCalls(field, v) ==
  IF ~Truthy(v) THEN <<>>
  ELSE IF field \in ListFields
       THEN [i \in 1..v.n |-> BuilderCall(BuilderMethod[field], FieldValue("element", i))]
       ELSE << BuilderCall(BuilderMethod[field], v) >>

RECURSIVE BlocksFrom(_, _)
BlocksFrom(options, k) ==
  IF k > Len(GuardedFields) THEN <<>>
  ELSE GuardedCalls(GuardedFields[k], options[GuardedFields[k]])
         \o BlocksFrom(options, k + 1)

\* SwaggerDocumentBuilder.build: the calls made on a new DocumentBuilder.
Build(options) ==
  << BuilderCall("setTitle", Coalesced(options["title"], Literal("Swagger API"))),
     BuilderCall("setDescription",
                 Coalesced(options["description"], Literal("Swagger API Description"))),
     BuilderCall("setVersion", Coalesced(options["version"], Literal("1.0.0"))) >>
    \o BlocksFrom(options, 1)

BuildCalls == [fn : {"build"}, options : BuilderOptions]

\* `options.debug || false` of line 67, for the module's debug flag.
DebugOrFalse(debug) == IF debug = "true" THEN "true" ELSE "false"

\* The object literal of lines 61-67 before the spread.
PluginDefaults(debug) ==
  [ dtoFileNameSuffix |-> "['.dto.ts', '.entity.ts']",
    controllerFileNameSuffix |-> "['.controller.ts']",
    classValidatorShim |-> "true",
    pathToSource |-> "metadataFolder",
    controllerKeyOfComment |-> "description",
    introspectComments |-> "true",
    debug |-> DebugOrFalse(debug) ]

\* A spread that keeps the keys the object already has.
SpreadUnder(object, given) ==
  [k \in DOMAIN object \cup DOMAIN given |->
     IF k \in DOMAIN object THEN object[k] ELSE given[k]]

\* `{ ...object, ...given }`: every own key of given wins.
SpreadOver(object, given) ==
  [k \in DOMAIN object \cup DOMAIN given |->
     IF k \in DOMAIN given THEN given[k] ELSE object[k]]

\* The pluginOptions of lines 60-69.
PluginOptions(options) ==
  SpreadOver(PluginDefaults(options.debug), options.pluginOptions)

\* The keys options.pluginOptions can give: the seven of the defaults and
\* one more; a key is given a value or undefined.
PluginKeys == DOMAIN PluginDefaults("false") \cup {"esmCompatible"}

GivenPluginOptions == UNION {[S -> {"given", "undefined"}] : S \in SUBSET PluginKeys}

\* The compiled code as a sequence of tokens: the two quote characters, the
\* slash, the text of rootDirRelative, and any other character.
Quotes == {"dq", "sq"}

CodeTokens == Quotes \cup {"/", "ROOT", "a"}

\* The longest compiled code.
MaxCode == 6

Codes == UNION {[1..n -> CodeTokens] : n \in 1..MaxCode}

\* The first quote character after position i, 0 when there is none:
\* where a run of [^"']* from i + 1 ends.
NextQuote(code, i) ==
  LET later == {j \in (i + 1)..Len(code) : code[j] \in Quotes}
  IN IF later = {} THEN 0 ELSE CHOOSE j \in later : \A k \in later : j <= k

\* The positions of the root in the run between i and c that rootDirRegex
\* can take: right after the quote or after a prefix ending in '/', and
\* right before the quote or before a suffix beginning with '/'.
RootPositions(code, i, c) ==
  {r \in (i + 1)..(c - 1) :
     /\ code[r] = "ROOT"
     /\ r = i + 1 \/ code[r - 1] = "/"
     /\ r = c - 1 \/ code[r + 1] = "/"}

\* rootDirRegex matches at position i: a quote, the run up to the next
\* quote character holding the root, and that quote being the same (\1).
MatchesAt(code, i) ==
  /\ code[i] \in Quotes
  /\ LET c == NextQuote(code, i)
     IN /\ c # 0
        /\ code[c] = code[i]
        /\ RootPositions(code, i, c) # {}

\* String.replace with the global rootDirRegex from position i on: a match
\* takes the longest prefix, so the last root of the run is replaced by
\* outDirRelative, and the search goes on after the closing quote.
RECURSIVE ReplaceFrom(_, _)
ReplaceFrom(code, i) ==
  IF i > Len(code) THEN <<>>
  ELSE IF MatchesAt(code, i)
       THEN LET c == NextQuote(code, i)
                roots == RootPositions(code, i, c)
                r == CHOOSE x \in roots : \A y \in roots : y <= x
            IN SubSeq(code, i, r - 1) \o <<"OUT">> \o SubSeq(code, r + 1, c)
                 \o ReplaceFrom(code, c + 1)
       ELSE <<code[i]>> \o ReplaceFrom(code, i + 1)

TransformedCode(code) == ReplaceFrom(code, 1)

TransformedCodeCalls == [fn : {"transformedCode"}, code : Codes]

PluginOptionsCalls ==
  [fn : {"pluginOptions"},
   options : [debug : {"undefined", "false", "true"},
              pluginOptions : GivenPluginOptions]]

FnCalls ==
  BuildOperationCalls \cup ProcessMethodCalls \cup ForRootCalls
    \cup ForRootAsyncCalls \cup ApplyDecoratorsCalls \cup GetModelsCalls
    \cup BuildCalls \cup PluginOptionsCalls \cup TransformedCodeCalls

\* The service is idle while a function is studied on its own.
ServiceIdle ==
  /\ document = Unset
  /\ fs = [p \in Paths |-> Absent]
  /\ moduleCache = Absent
  /\ annotations = NoMeta
  /\ nInit = 0
  /\ nWorkers = 0
  /\ pc = [r \in Runs |-> "idle"]
  /\ wpc = [r \in Runs |-> "none"]
  /\ hasCallback = [r \in Runs |-> FALSE]
  /\ metadata = [r \in Runs |-> NoMeta]
  /\ thrown = [r \in Runs |-> "none"]
  /\ errors = {}
  /\ docBy = 0
  /\ fileBy = 0

InitFn ==
  /\ ServiceIdle
  /\ fnCall \in FnCalls
  /\ fnResult = Pending

CallBuildOperation ==
  /\ fnCall.fn = "buildOperation"
  /\ fnResult = Pending
  /\ fnResult' = [fn |-> "buildOperation",
                  value |-> BuildOperation(fnCall.info, fnCall.description)]
  /\ UNCHANGED fnCall
  /\ UNCHANGED svcVars

\* One generation's applyDecorators reaches the method.
CallProcessMethod ==
  /\ fnCall.fn = "processMethod"
  /\ \/ /\ fnResult = Pending
        /\ LET after == ProcessMethod(fnCall.store, fnCall)
           IN fnResult' = [fn |-> "processMethod", passes |-> 1,
                           first |-> after, store |-> after]
     \/ /\ fnResult.fn = "processMethod"
        /\ fnResult.passes < MaxPasses
        /\ fnResult' = [fnResult EXCEPT
                          !.passes = @ + 1,
                          !.store = ProcessMethod(fnResult.store, fnCall)]
  /\ UNCHANGED fnCall
  /\ UNCHANGED svcVars

CallForRoot ==
  /\ fnCall.fn = "forRoot"
  /\ fnResult = Pending
  /\ fnResult' = [fn |-> "forRoot", value |-> ForRoot(fnCall.options)]
  /\ UNCHANGED fnCall
  /\ UNCHANGED svcVars

CallForRootAsync ==
  /\ fnCall.fn = "forRootAsync"
  /\ fnResult = Pending
  /\ fnResult' = [fn |-> "forRootAsync", value |-> ForRootAsync(fnCall)]
  /\ UNCHANGED fnCall
  /\ UNCHANGED svcVars

CallApplyDecorators ==
  /\ fnCall.fn = "applyDecorators"
  /\ fnResult = Pending
  /\ fnResult' = [fn |-> "applyDecorators", value |-> ApplyDecorators(fnCall.app)]
  /\ UNCHANGED fnCall
  /\ UNCHANGED svcVars

CallGetModels ==
  /\ fnCall.fn = "getModels"
  /\ fnResult = Pending
  /\ fnResult' = [fn |-> "getModels", value |-> GetModels(fnCall.models)]
  /\ UNCHANGED fnCall
  /\ UNCHANGED svcVars

CallBuild ==
  /\ fnCall.fn = "build"
  /\ fnResult = Pending
  /\ fnResult' = [fn |-> "build", value |-> Build(fnCall.options)]
  /\ UNCHANGED fnCall
  /\ UNCHANGED svcVars

CallPluginOptions ==
  /\ fnCall.fn = "pluginOptions"
  /\ fnResult = Pending
  /\ fnResult' = [fn |-> "pluginOptions", value |-> PluginOptions(fnCall.options)]
  /\ UNCHANGED fnCall
  /\ UNCHANGED svcVars

CallTransformedCode ==
  /\ fnCall.fn = "transformedCode"
  /\ fnResult = Pending
  /\ fnResult' = [fn |-> "transformedCode", value |-> TransformedCode(fnCall.code)]
  /\ UNCHANGED fnCall
  /\ UNCHANGED svcVars

NextFn ==
  \/ CallBuildOperation
  \/ CallProcessMethod
  \/ CallForRoot
  \/ CallForRootAsync
  \/ CallApplyDecorators
  \/ CallGetModels
  \/ CallBuild
  \/ CallPluginOptions
  \/ CallTransformedCode

SpecFn == InitFn /\ [][NextFn]_vars

-----------------------------------------------------------------------------
(* Claims about the summary/description split.                             *)

\* d is t without its leading and trailing whitespace.
IsTrimOf(d, t) ==
  \E i \in 0..Len(t) :
    /\ i + Len(d) <= Len(t)
    /\ \A k \in 1..i : t[k] = " "
    /\ \A k \in (i + Len(d) + 1)..Len(t) : t[k] = " "
    /\ SubSeq(t, i + 1, i + Len(d)) = d
    /\ d # <<>> => (d[1] # " " /\ d[Len(d)] # " ")

\* buildOperation has returned for a call whose comment text is a text.
Built ==
  /\ fnCall.fn = "buildOperation"
  /\ fnResult.fn = "buildOperation"
  /\ fnCall.description # Undef

\* buildOperation has returned for the comment text T.
BuiltFrom(T) == Built /\ fnCall.description = T

\* C11 as stated: a non-empty comment text without '===' becomes the trimmed
\* description, and the operation's summary is unset.
C11_NoSeparatorSummaryUnset ==
  (Built /\ fnCall.description # <<>> /\ Occurrences(fnCall.description) = {}) =>
    /\ IsTrimOf(fnResult.value.description, fnCall.description)
    /\ fnResult.value.summary = Undef

\* C11 amended: a non-empty comment text without '===' becomes the trimmed
\* description, and the summary is the one the method's existing operation
\* annotation carried (unset only when it carried none).
C11_NoSeparatorKeepsSummary ==
  (Built /\ fnCall.description # <<>> /\ Occurrences(fnCall.description) = {}) =>
    /\ IsTrimOf(fnResult.value.description, fnCall.description)
    /\ fnResult.value.summary = fnCall.info.summary

C11_Witness ==
  /\ BuiltFrom(<<" ", "a", " ", "a", " ">>)
  /\ fnCall.info.summary = <<"a", "a">>
  /\ fnResult.value.description = <<"a", " ", "a">>
  /\ fnResult.value.summary = <<"a", "a">>

\* C12: a comment text A '===' B with exactly one separator yields summary A
\* trimmed and description B trimmed.
C12_OneSeparatorSplits ==
  Built =>
    LET T == fnCall.description
    IN \A i \in 1..Len(T) :
         Occurrences(T) = {i} =>
           /\ IsTrimOf(fnResult.value.summary, SubSeq(T, 1, i - 1))
           /\ IsTrimOf(fnResult.value.description, SubSeq(T, i + 3, Len(T)))

C12_Witness ==
  /\ BuiltFrom(<<"a", " ", "=", "=", "=", " ", "a", "a">>)
  /\ fnResult.value.summary = <<"a">>
  /\ fnResult.value.description = <<"a", "a">>

\* C13 as stated: with two or more separators the text is split on the first
\* one only: summary is A trimmed and description is the whole remainder
\* 'B === C' trimmed.
C13_SplitOnFirstSeparatorOnly ==
  Built =>
    LET T == fnCall.description
    IN \A i \in 1..Len(T) :
         ( /\ i \in Occurrences(T)
           /\ \A m \in Occurrences(T) : i <= m
           /\ \E m \in Occurrences(T) : m >= i + 3 ) =>
           /\ IsTrimOf(fnResult.value.summary, SubSeq(T, 1, i - 1))
           /\ IsTrimOf(fnResult.value.description, SubSeq(T, i + 3, Len(T)))

-----------------------------------------------------------------------------
(* Claims about the common-response envelope.                              *)

\* processMethod has run at least once on an HTTP-handling method.
Processed ==
  /\ fnCall.fn = "processMethod"
  /\ fnResult.fn = "processMethod"
  /\ fnCall.handler

\* The schema is the envelope composition.
IsEnvelope(schema) == "allOf" \in DOMAIN schema

\* The method's success response after the applier ran.
SuccessResponse == fnResult.store.responses["200"]

\* The method's success response is the envelope composition.
Wrapped == Processed /\ IsEnvelope(SuccessResponse)

\* C14: the envelope response is applied exactly when the method has a
\* declared return type, commonResponseInfo is configured and neither the
\* class nor the method carries the skip marker; otherwise the method gets
\* the operation annotation only and its responses stay as they were.
C14_WrapExactlyWhenTypedConfiguredUnskipped ==
  Processed =>
    LET should == /\ fnCall.type # NoType
                  /\ fnCall.options.commonResponseInfo # NoCommonResponseInfo
                  /\ fnCall.classSkip # JsTrue
                  /\ fnCall.methodSkip # JsTrue
    IN /\ IsEnvelope(SuccessResponse) <=> should
       /\ fnResult.store.operation.summary # Undef
       /\ ~should => fnResult.store.responses = fnCall.store.responses

C14_Witness ==
  /\ Processed
  /\ fnCall.type = ClassType("UserDto")
  /\ fnCall.options.commonResponseInfo # NoCommonResponseInfo
  /\ fnCall.classSkip = Undef
  /\ fnCall.methodSkip = JsTrue
  /\ ~IsEnvelope(SuccessResponse)
  /\ fnResult.store.operation.description = <<"a">>

\* The envelope's properties in the metadata of the call.
EnvelopeProperties ==
  IF "CommonResponse" \in DOMAIN fnCall.models
  THEN fnCall.models["CommonResponse"]
  ELSE <<>>

\* C15: in a wrapped response the payload property is {type: 'object'} for
\* the generic Object type and a $ref to the declared class otherwise, every
\* other property is the envelope's, and the schema is
\* allOf [ $ref envelope, {properties} ].
C15_PayloadObjectOrRef ==
  (Wrapped /\ fnCall.type.kind = "class") =>
    LET properties == SuccessResponse.allOf[2].properties
    IN /\ DOMAIN SuccessResponse = {"allOf"}
       /\ Len(SuccessResponse.allOf) = 2
       /\ SuccessResponse.allOf[1] =
            [ref |-> <<"#/components/schemas/", "CommonResponse">>]
       /\ DOMAIN SuccessResponse.allOf[2] = {"properties"}
       /\ DOMAIN properties = (DOMAIN EnvelopeProperties) \cup {"data"}
       /\ \A k \in (DOMAIN EnvelopeProperties) \ {"data"} :
            properties[k] = EnvelopeProperties[k]
       /\ properties["data"] =
            IF fnCall.type.name = "Object"
            THEN [type |-> "object"]
            ELSE [ref |-> <<"#/components/schemas/", fnCall.type.name>>]

C15_Witness ==
  /\ Wrapped
  /\ fnCall.type = ObjectType
  /\ "CommonResponse" \in DOMAIN fnCall.models
  /\ SuccessResponse.allOf[2].properties["data"] = [type |-> "object"]
  /\ SuccessResponse.allOf[2].properties["code"] = [type |-> "Number"]

\* C16 as stated: for a declared return type that is an array of a class, the
\* payload property is {type: 'array', items: {$ref to the element class}}.
C16_ArrayPayloadIsArraySchema ==
  (Wrapped /\ fnCall.type.kind = "array") =>
    SuccessResponse.allOf[2].properties["data"] =
      [type  |-> "array",
       items |-> [ref |-> <<"#/components/schemas/", fnCall.type.items>>]]

\* What the pipeline persists for the annotations `store` of the method.
Persisted(store) == Stringify(CreateDocument(store, fnCall.models))

\* C17: a second generation with the same metadata and options leaves the
\* method's annotations, hence the assembled and persisted document, as the
\* first generation left them.
C17_SecondRunChangesNothing ==
  ( /\ fnCall.fn = "processMethod"
    /\ fnResult.fn = "processMethod"
    /\ fnResult.passes >= 2 ) =>
    /\ fnResult.store = fnResult.first
    /\ Persisted(fnResult.store) = Persisted(fnResult.first)

C17_Witness ==
  /\ Wrapped
  /\ fnResult.passes = 2
  /\ fnCall.description = <<"a", " ", "=", "=", "=", " ", "a">>
  /\ fnCall.store.operation.description = <<"a">>
  /\ fnCall.store.responses["200"] = [type |-> "string"]
  /\ fnResult.store = fnResult.first

-----------------------------------------------------------------------------
(* Claims about module registration.                                       *)

\* The dynamic module provides and exports the service and the options token.
ProvidesAndExports(dm) ==
  /\ \E p \in dm.providers : p.provide = "SwaggerDocumentService"
  /\ \E p \in dm.providers : p.provide = SWAGGER_PLUGIN_OPTIONS
  /\ {"SwaggerDocumentService", SWAGGER_PLUGIN_OPTIONS} \subseteq dm.exports

\* C18 as stated: forRootAsync makes the modules listed under 'imports'
\* available, so every token of 'inject' that those modules export can be
\* resolved for the options factory; forRoot and forRootAsync both provide
\* and export the service and the options token.
C18_AsyncImportsAvailable ==
  /\ fnResult.fn = "forRoot" => ProvidesAndExports(fnResult.value)
  /\ fnResult.fn = "forRootAsync" =>
       /\ ProvidesAndExports(fnResult.value)
       /\ fnCall.imports \subseteq fnResult.value.imports
       /\ \A i \in DOMAIN fnCall.inject :
            (\E m \in fnCall.imports : fnCall.inject[i] \in ExportsOf(m)) =>
              Resolvable(fnResult.value, fnCall.inject[i], fnCall.globals)

-----------------------------------------------------------------------------
(* Claims about the worker's result and the metadata loader.               *)

\* The worker of run r ends its compile step in this step.
TransformEnds(r) ==
  wpc[r] \in {"transforming", "tolerating"} /\ wpc'[r] # wpc[r]

\* C21: when compiling or rewriting metadata.ts fails, the error is written
\* as an error log line and the worker still posts a success result; the
\* compile step never ends in a failure result, and the error line is
\* written only for a metadata.ts that exists.
C21_TransformErrorLoggedStillSuccess ==
  [][\A r \in Runs :
       TransformEnds(r) =>
         /\ wpc'[r] = "posted_ok"
         /\ (Exists(fs, MetadataTsPath)
               /\ fs'[MetadataJsPath] # JsFile(fs[MetadataTsPath], r)) =>
              "transform_error" \in errors'
         /\ "transform_error" \in errors' \ errors => Exists(fs, MetadataTsPath)
    ]_vars

C21_Witness ==
  /\ nInit = 1
  /\ wpc[1] = "posted_ok"
  /\ "transform_error" \in errors
  /\ Exists(fs, MetadataTsPath)
  /\ ~Exists(fs, MetadataJsPath)

\* The worker of run r has posted its result message.
Posted(r) == wpc[r] \in {"posted_ok", "posted_fail"}

\* The worker of run r posts its result message in this step.
Posts(r, result) == wpc[r] # result /\ wpc'[r] = result

\* The caller's handling of run r's worker never starts over, and enters
\* the load/setup path only from waiting, on a success message.
LoadPathAtMostOnce(r) ==
  /\ pc'[r] = "waiting" => pc[r] \in {"idle", "waiting"}
  /\ Enters(r, "importing") => (pc[r] = "waiting" /\ wpc[r] = "posted_ok")

LoadsAbsent(r) ==
  /\ pc'[r] # pc[r]
  /\ ~Exists(fs, MetadataJsPath)
  /\ \/ pc[r] = "waiting" /\ wpc[r] = "posted_ok"
     \/ pc[r] = "importing" /\ moduleCache = Absent

\* C23: the loader fails when metadata.js is absent at load time; after a
\* worker success message this error is caught and logged, the run ends as
\* failed for good (no setup, no callback), and the in-memory document, the
\* annotations and the files are unchanged.
C23_AbsentModuleFailsLoad ==
  [][\A r \in Runs :
       /\ LoadsAbsent(r) =>
            /\ pc'[r] = "failed"
            /\ "worker_catch" \in errors'
            /\ errors' \subseteq errors \cup {"worker_catch"}
            /\ metadata'[r] = NoMeta
            /\ GetDocument' = GetDocument
            /\ UNCHANGED <<annotations, fs, moduleCache, docBy, fileBy>>
       /\ pc[r] = "failed" => pc'[r] = "failed"
    ]_vars

C23_Witness ==
  /\ nInit = 1
  /\ pc[1] = "failed"
  /\ wpc[1] = "posted_ok"
  /\ errors = {"worker_catch"}
  /\ GetDocument = CachedDoc
  /\ ~Exists(fs, MetadataJsPath)

-----------------------------------------------------------------------------
(* Claims about which members applyDecorators annotates.                   *)

\* C24 as stated: applyDecorators leaves every member that is not a function
\* or has no HTTP method metadata as it was, and every HTTP-handling method
\* of every controller of the module graph receives an operation annotation.
C24_OnlyAndAllHandlersAnnotated ==
  fnResult.fn = "applyDecorators" =>
    \A m \in DOMAIN fnCall.app :
      \A i \in DOMAIN fnCall.app[m] :
        LET before == fnCall.app[m][i]
            after  == fnResult.value[m][i]
        IN IF before.kind = "handler"
           THEN after.store.operation.summary # Undef
           ELSE after = before

-----------------------------------------------------------------------------
(* Claims about the model processor.                                       *)

\* A key is numeric: the decimal text of a number.
IsNumericKey(k) == k \in {"0", "1"}

\* The keys of an enum object that are not numeric, in key order.
NonNumericKeys(keys) == SelectSeq(keys, LAMBDA k : ~IsNumericKey(k))

\* What the claim says a property is after getModels.
Normalized(prop) ==
  IF prop.enum = "object"
  THEN [prop EXCEPT !.varnames = NonNumericKeys(prop.keys)]
  ELSE prop

\* The function-typed values of the files, in metadata order, as positions
\* <<file, index>>.
RECURSIVE FunctionPositions(_, _, _)
FunctionPositions(models, f, i) ==
  IF f > Len(models) THEN <<>>
  ELSE IF i > Len(models[f]) THEN FunctionPositions(models, f + 1, 1)
  ELSE (IF models[f][i].kind = "value" THEN <<>> ELSE << <<f, i>> >>)
         \o FunctionPositions(models, f, i + 1)

\* C25 as stated: getModels returns the function-typed values of the files
\* in metadata order, and every property whose enum is a non-array object
\* has 'x-enum-varnames' set to the enum's non-numeric keys in key order,
\* every other property being unchanged.
C25_EnumVarnamesAreNonNumericKeys ==
  fnResult.fn = "getModels" =>
    LET at == FunctionPositions(fnCall.models, 1, 1)
    IN /\ Len(fnResult.value) = Len(at)
       /\ \A n \in 1..Len(at) :
            LET given == fnCall.models[at[n][1]][at[n][2]]
                got   == fnResult.value[n]
            IN /\ got.kind = given.kind
               /\ DOMAIN got.props = DOMAIN given.props
               /\ \A i \in DOMAIN given.props :
                    got.props[i] = Normalized(given.props[i])

-----------------------------------------------------------------------------
(* Claims about the document builder.                                      *)

\* The fields with a guarded block.
OptionalFields == BuilderFields \ {"title", "description", "version"}

\* build made a call of the method of the field.
Called(field) ==
  \E i \in DOMAIN fnResult.value :
    fnResult.value[i].method = BuilderMethod[field]

\* The first three calls carry the given title, description and version,
\* or the default for one that is absent.
DefaultsWhenAbsent ==
  LET options == fnCall.options
      given(field, text) ==
        IF options[field] = NotGiven THEN Literal(text) ELSE options[field]
  IN /\ fnResult.value[1] = BuilderCall("setTitle", given("title", "Swagger API"))
     /\ fnResult.value[2] =
          BuilderCall("setDescription", given("description", "Swagger API Description"))
     /\ fnResult.value[3] = BuilderCall("setVersion", given("version", "1.0.0"))

\* C26 as stated: the builder call of an optional field is made if and
\* only if the field is present in the configuration, and an absent title,
\* description or version gives the default.
C26_CallIffPresent ==
  fnResult.fn = "build" =>
    /\ DefaultsWhenAbsent
    /\ \A f \in OptionalFields : Called(f) <=> fnCall.options[f] # NotGiven

\* C26 amended: the builder call of an optional field is made if and only
\* if the field's value is truthy (an empty string makes no call) and, for a
\* field handled element by element, the list is not empty; an absent
\* title, description or version gives the default.
C26_CallIffTruthy ==
  fnResult.fn = "build" =>
    /\ DefaultsWhenAbsent
    /\ \A f \in OptionalFields :
         LET v == fnCall.options[f]
         IN Called(f) <=>
              /\ v # NotGiven
              /\ v # FieldValue("string", 0)
              /\ f \in ListFields => v.n > 0

\* build ran on a configuration with an empty termsOfService and a contact.
C26_Witness ==
  /\ fnResult.fn = "build"
  /\ fnCall.options["termsOfService"] = FieldValue("string", 0)
  /\ fnCall.options["contact"] # NotGiven
  /\ Called("contact")
  /\ ~Called("termsOfService")

-----------------------------------------------------------------------------
(* Claims about the plugin options.                                        *)

\* The defaults as documented, debug being the module's flag or false.
DocumentedDefault(key) ==
  CASE key = "dtoFileNameSuffix" -> "['.dto.ts', '.entity.ts']"
    [] key = "controllerFileNameSuffix" -> "['.controller.ts']"
    [] key = "classValidatorShim" -> "true"
    [] key = "pathToSource" -> "metadataFolder"
    [] key = "controllerKeyOfComment" -> "description"
    [] key = "introspectComments" -> "true"
    [] key = "debug" -> IF fnCall.options.debug = "true" THEN "true" ELSE "false"

DocumentedKeys ==
  {"dtoFileNameSuffix", "controllerFileNameSuffix", "classValidatorShim",
   "pathToSource", "controllerKeyOfComment", "introspectComments", "debug"}

\* C27: the plugin options are the documented defaults, every key given in
\* options.pluginOptions replacing the default and every other key keeping
\* its default.
C27_PluginOptionsDefaultsOverridden ==
  fnResult.fn = "pluginOptions" =>
    LET given == fnCall.options.pluginOptions
    IN /\ DOMAIN fnResult.value = DocumentedKeys \cup DOMAIN given
       /\ \A k \in DOMAIN given : fnResult.value[k] = given[k]
       /\ \A k \in DocumentedKeys \ DOMAIN given :
            fnResult.value[k] = DocumentedDefault(k)

\* The options were computed with the module's debug flag set, debug given
\* in pluginOptions and classValidatorShim not given.
C27_Witness ==
  /\ fnResult.fn = "pluginOptions"
  /\ fnCall.options.debug = "true"
  /\ "debug" \in DOMAIN fnCall.options.pluginOptions
  /\ fnCall.options.pluginOptions["debug"] = "given"
  /\ "classValidatorShim" \notin DOMAIN fnCall.options.pluginOptions
  /\ fnResult.value["debug"] = "given"
  /\ fnResult.value["classValidatorShim"] = "true"

-----------------------------------------------------------------------------
(* Claims about the rewriting of paths in the compiled code.               *)

\* The closing quote of the literal opened at position i: the next
\* occurrence of the same quote character, 0 when there is none.
ClosingQuote(code, i) ==
  LET later == {j \in (i + 1)..Len(code) : code[j] = code[i]}
  IN IF later = {} THEN 0 ELSE CHOOSE j \in later : \A k \in later : j <= k

\* The quoted literals of the code from position i on, as <<open, close>>.
RECURSIVE LiteralsFrom(_, _)
LiteralsFrom(code, i) ==
  IF i > Len(code) THEN {}
  ELSE IF code[i] \in Quotes /\ ClosingQuote(code, i) # 0
       THEN {<<i, ClosingQuote(code, i)>>}
              \cup LiteralsFrom(code, ClosingQuote(code, i) + 1)
       ELSE LiteralsFrom(code, i + 1)

\* The places where a literal references the source root: the root as
\* whole path segments, after nothing or a prefix ending in '/', before
\* nothing or a suffix beginning with '/'.
References(code, literal) ==
  {r \in (literal[1] + 1)..(literal[2] - 1) :
     /\ code[r] = "ROOT"
     /\ r = literal[1] + 1 \/ code[r - 1] = "/"
     /\ r = literal[2] - 1 \/ code[r + 1] = "/"}

\* C28 as stated: every quoted literal that references the source root has
\* that reference replaced by the output root, prefix, suffix and quotes
\* kept, and every other literal is unchanged.
C28_RootLiteralsRewritten ==
  fnResult.fn = "transformedCode" =>
    LET code == fnCall.code
        out  == fnResult.value
    IN /\ Len(out) = Len(code)
       /\ \A literal \in LiteralsFrom(code, 1) :
            LET inside == literal[1]..literal[2]
            IN IF References(code, literal) = {}
               THEN \A k \in inside : out[k] = code[k]
               ELSE \E r \in References(code, literal) :
                      /\ out[r] = "OUT"
                      /\ \A k \in inside \ {r} : out[k] = code[k]

-----------------------------------------------------------------------------
(* Claims about the completion callback.                                   *)

\* This step ends run r's handling as completed: the one step in which the
\* closure of initialize runs the callback, when it was given one.
Completes(r) == pc[r] # "done" /\ pc'[r] = "done"

\* This step is run r's setup() returning normally.
SetupReturns(r) == pc[r] # "setup_done" /\ pc'[r] = "setup_done"

\* This step assigns the document assembled from run r's metadata and
\* writes it to the file.
ReplacesAndWrites(r) ==
  /\ pc[r] = "assembling"
  /\ document' = CreateDocument(annotations, metadata[r])
  /\ docBy' = r
  /\ fs'[WritePath] = Stringify(document')
  /\ fileBy' = r

-----------------------------------------------------------------------------
(* Claims about overlapping runs and the shared metadata folder.           *)

\* This step is run r's loader reading metadata.js from the disk, no module
\* of that path being cached.
Loads(r) == pc[r] = "importing" /\ pc'[r] = "decorating" /\ moduleCache = Absent

\* C30: with overlapping initialize() calls on the one metadata folder,
\* the metadata.js a run's loader reads after its worker reported success
\* exists and was written by the run's own worker: the other run's worker
\* has neither removed it nor replaced it with its own output.
C30_LoadsOwnWorkersModule ==
  [][\A r \in Runs : Loads(r) => fs[MetadataJsPath].by = r]_vars

====
